---------------------------- MODULE Spec2Model ----------------------------
(***************************************************************************)
(* A model of the spam-contest bot (src/src/lib.rs).                       *)
(*                                                                         *)
(* Every inbound chat message is handled by its own task running           *)
(* Handler::message.  The task either routes the message into the sink of  *)
(* the contest registered for the channel, or, when the text holds the     *)
(* trigger, runs run_contest inline: announcement, optional pin, sink      *)
(* registration, select between the timer and the receive loop, removal    *)
(* of the registry entry, and the final delete / unpin / results I/O.      *)
(*                                                                         *)
(* A text is a sequence of one-character strings.  The registry is the     *)
(* DashMap `contests`; a DashMap `get` returns a guard that holds the      *)
(* shard's read lock until it is dropped, and insert / remove take the     *)
(* shard's write lock.  Each channel is modelled with a lock of its own.   *)
(***************************************************************************)
EXTENDS Integers, Sequences, FiniteSets, TLC

VARIABLES contests, tasks

vars == <<contests, tasks>>

-----------------------------------------------------------------------------
(* Program constants *)

DEFAULT_CONTEST_DURATION == 60

ALLOWED_DURATION_MIN == 10

ALLOWED_DURATION_MAX == 3600

PIN_ANNOUNCEMENT_THRESHOLD == 300

SinkCapacity == 8

-----------------------------------------------------------------------------
(* Bounds of the model *)

\* Messages delivered in one behaviour of Spec.
MaxMsgs == 3

\* Tokens per message text in DurationSpec.
MaxTokens == 3

\* Largest per-author message count of a tally drawn in RankSpec.
MaxTally == 2

\* Channel and user ids are opaque; the model names them in the order in
\* which they first appear in a message.
ChannelIds == <<"c1", "c2">>

UserIds == <<"u1", "u2">>

Channels == {ChannelIds[i] : i \in 1..Len(ChannelIds)}

Authors == {UserIds[i] : i \in 1..Len(UserIds)}

\* Option::None of contests.get: the channel has no registry entry.
NoEntry == 0

-----------------------------------------------------------------------------
(* Texts *)

Whitespace == {" ", "\t", "\n", "\r", "\f"}

DigitChars == {"0", "1", "2", "3", "4", "5", "6", "7", "8", "9"}

DigitValue(c) ==
    CASE c = "0" -> 0 [] c = "1" -> 1 [] c = "2" -> 2 [] c = "3" -> 3
      [] c = "4" -> 4 [] c = "5" -> 5 [] c = "6" -> 6 [] c = "7" -> 7
      [] c = "8" -> 8 [] c = "9" -> 9

\* char::to_lowercase on the letters the model's texts use.
LowerChar(c) ==
    CASE c = "S" -> "s" [] c = "P" -> "p" [] c = "A" -> "a" [] c = "M" -> "m"
      [] c = "H" -> "h" [] c = "I" -> "i"
      [] OTHER -> c

\* str::to_lowercase
ToLowercase(s) == [i \in 1..Len(s) |-> LowerChar(s[i])]

\* str::contains
Contains(s, pat) ==
    \E i \in 0..(Len(s) - Len(pat)) :
        \A j \in 1..Len(pat) : s[i + j] = pat[j]

TriggerText == <<"s", "p", "a", "m">>

\* lib.rs:53  msg.content.to_lowercase().contains("spam")
HasTrigger(content) == Contains(ToLowercase(content), TriggerText)

\* str::split_ascii_whitespace: the maximal runs of non-whitespace characters.
RECURSIVE SplitFrom(_, _, _)
SplitFrom(s, i, cur) ==
    IF i > Len(s)
    THEN IF cur = <<>> THEN <<>> ELSE <<cur>>
    ELSE IF s[i] \in Whitespace
         THEN IF cur = <<>>
              THEN SplitFrom(s, i + 1, <<>>)
              ELSE <<cur>> \o SplitFrom(s, i + 1, <<>>)
         ELSE SplitFrom(s, i + 1, Append(cur, s[i]))

SplitAsciiWhitespace(s) == SplitFrom(s, 1, <<>>)

RECURSIVE DigitsValue(_, _)
DigitsValue(ds, acc) ==
    IF ds = <<>> THEN acc
    ELSE DigitsValue(Tail(ds), acc * 10 + DigitValue(Head(ds)))

\* <u64 as FromStr>::from_str: an optional '+', then one or more ASCII digits;
\* a '-' is an invalid digit for an unsigned type.  The result is
\* [ok |-> BOOLEAN, val |-> the value].  The texts of the model hold tokens of
\* at most four digits, far below the overflow of u64.
ParseU64(tok) ==
    LET ds == IF tok # <<>> /\ Head(tok) = "+" THEN Tail(tok) ELSE tok
    IN  IF ds # <<>> /\ \A i \in 1..Len(ds) : ds[i] \in DigitChars
        THEN [ok |-> TRUE, val |-> DigitsValue(ds, 0)]
        ELSE [ok |-> FALSE, val |-> 0]

\* .filter_map(|w| w.parse().ok()).map(Duration::from_secs)
ParsedSeconds(content) ==
    LET toks   == SplitAsciiWhitespace(content)
        parsed == [i \in 1..Len(toks) |-> ParseU64(toks[i])]
        IsOk(p) == p.ok
        oks    == SelectSeq(parsed, IsOk)
    IN  [i \in 1..Len(oks) |-> oks[i].val]

\* ALLOWED_DURATION_RANGE.contains(d)
InAllowedRange(d) == ALLOWED_DURATION_MIN <= d /\ d <= ALLOWED_DURATION_MAX

\* A plausible slip: an out-of-range request is clamped into the range.
ResolveDurationClamped(content) ==
    LET secs == ParsedSeconds(content)
    IN  IF secs = <<>> THEN DEFAULT_CONTEST_DURATION
        ELSE IF secs[1] < ALLOWED_DURATION_MIN THEN ALLOWED_DURATION_MIN
        ELSE IF secs[1] > ALLOWED_DURATION_MAX THEN ALLOWED_DURATION_MAX
        ELSE secs[1]

\* A plausible slip: only the first parseable token is looked at.
ResolveDurationFirstOnly(content) ==
    LET secs == ParsedSeconds(content)
    IN  IF secs # <<>> /\ InAllowedRange(secs[1])
        THEN secs[1]
        ELSE DEFAULT_CONTEST_DURATION

\* lib.rs:54-60  .find(|d| ALLOWED_DURATION_RANGE.contains(d))
\*               .unwrap_or(DEFAULT_CONTEST_DURATION)
ResolveDuration(content) ==
    LET secs    == SelectSeq(ParsedSeconds(content), InAllowedRange)
    IN  IF secs = <<>> THEN DEFAULT_CONTEST_DURATION ELSE secs[1]

-----------------------------------------------------------------------------
(* Contest: the tally and its rendering *)

\* A plausible slip: an author's entry is inserted anew on every message.
CountOverwriting(counts, message) ==
    [id \in DOMAIN counts \cup {message.author} |->
        IF id = message.author
        THEN [messages |-> 1, characters |-> Len(message.content)]
        ELSE counts[id]]

\* lib.rs:118-135  Contest::count
Count(counts, message) ==
    LET char_count == Len(message.content)
        id         == message.author
    IN  IF id \notin DOMAIN counts
        THEN counts @@ (id :> [messages |-> 1, characters |-> char_count])
        ELSE [counts EXCEPT ![id] =
                 [messages   |-> @.messages + 1,
                  characters |-> @.characters + char_count]]

\* HashMap::new()
EmptyCounts == <<>>

\* The keys and displays run_contest passes to ranking_by (lib.rs:226, 231);
\* Reverse(n) orders as -n does.
KeyMessages(c) == 0 - c.messages

\* A plausible slip: the Reverse is left out and the ranking ascends.
KeyCharactersAscending(c) == c.characters

ShowMessages(c) == c.messages

KeyCharacters(c) == 0 - c.characters

ShowCharacters(c) == c.characters

OrdersOf(S) ==
    {p \in [1..Cardinality(S) -> S] :
        \A i, j \in 1..Cardinality(S) : i # j => p[i] # p[j]}

\* lib.rs:144-145: the entries of the map in the orders that iterating a
\* HashMap and sort_unstable_by_key may leave them in: any order that is
\* sorted by the key.  keys[u] is fk applied to the entry of u.
SortedOrders(counts, keys) ==
    {p \in OrdersOf(DOMAIN counts) :
        \A i, j \in 1..Len(p) : i < j => keys[p[i]] <= keys[p[j]]}

\* One line of the rendering: "**{rank}.:** <@{userid}> ({shown})\n"
Line(rank, userid, shown) == [rank |-> rank, user |-> userid, shown |-> shown]

\* The end of the chunk that starts at i: chunk_by groups consecutive equal keys.
RECURSIVE ChunkEnd(_, _)
ChunkEnd(keys, i) ==
    IF i < Len(keys) /\ keys[i + 1] = keys[i] THEN ChunkEnd(keys, i + 1) ELSE i

\* A plausible slip: the rank number advances by one per tier (dense ranking).
RECURSIVE RenderChunksDense(_, _, _, _, _)
RenderChunksDense(users, keys, shown, i, cur_rank_num) ==
    IF i > Len(users) THEN <<>>
    ELSE LET last == ChunkEnd(keys, i)
         IN  [k \in 1..(last - i + 1) |->
                 Line(cur_rank_num, users[i + k - 1], shown[i + k - 1])]
             \o RenderChunksDense(users, keys, shown, last + 1, cur_rank_num + 1)

\* lib.rs:147-158: the loop over the chunks.
RECURSIVE RenderChunks(_, _, _, _, _)
RenderChunks(users, keys, shown, i, cur_rank_num) ==
    IF i > Len(users) THEN <<>>
    ELSE LET last       == ChunkEnd(keys, i)
             group_size == last - i + 1
         IN  [k \in 1..group_size |->
                 Line(cur_rank_num, users[i + k - 1], shown[i + k - 1])]
             \o RenderChunks(users, keys, shown, last + 1,
                             cur_rank_num + group_size)

\* lib.rs:137-160  Contest::ranking_by, for one outcome `ranking` of the
\* sort; keys[u] and shown[u] are fk and fd applied to the entry of u.
RankingBy(counts, ranking, keys, shown) ==
    RenderChunks(ranking,
                 [i \in 1..Len(ranking) |-> keys[ranking[i]]],
                 [i \in 1..Len(ranking) |-> shown[ranking[i]]],
                 1, 1)

\* The closures run_contest passes, applied to every entry of the tally.
MessageKeys(counts) == [u \in DOMAIN counts |-> KeyMessages(counts[u])]

MessagesShown(counts) == [u \in DOMAIN counts |-> ShowMessages(counts[u])]

CharacterKeys(counts) == [u \in DOMAIN counts |-> KeyCharacters(counts[u])]

CharactersShown(counts) == [u \in DOMAIN counts |-> ShowCharacters(counts[u])]

-----------------------------------------------------------------------------
(* Tasks *)

\* A task is one run of Handler::message; task t handles the t-th message
\* the gateway delivered.  Its fields:
\*   pc        where the task is: "send", "announce", "pin", "insert",
\*             "collect", "remove", "delete", "unpin", "results", and the
\*             ends "done" (message returned), "closed" (run_contest
\*             returned Ok), "aborted" (the announcement failed), "failed"
\*             (delete or results failed), "unreachable" (the panic at
\*             lib.rs:203), "unwrap" (the panic at lib.rs:49)
\*   msg       the message
\*   dest      the session whose sender the task's guard refers to
\*   gen       how many sinks had been registered for the channel when the
\*             task looked the channel up
\*   duration, pin   the arguments of run_contest
\*   timer     the seconds the session's sleep was armed with, 0 before
\*   queue     the messages in the session's sink (mpsc::channel(8))
\*   counts    the session's Contest
\*   dropped   how many messages were in the sink when its receiver was dropped
\*   ann       the announcement: "none", "posted", "deleted"
\*   pinned    whether the announcement is pinned
\*   io        the gateway operations the session has issued
\*   results   the two rankings of the results message, <<>> before it is sent
\* TaskPinStrict is a plausible slip: a contest of exactly the threshold is
\* not pinned.
TaskPinStrict(pc, msg, dest, gen, duration) ==
    [pc       |-> pc,
     msg      |-> msg,
     dest     |-> dest,
     gen      |-> gen,
     duration |-> duration,
     pin      |-> duration > PIN_ANNOUNCEMENT_THRESHOLD,
     timer    |-> 0,
     queue    |-> <<>>,
     counts   |-> EmptyCounts,
     dropped  |-> 0,
     ann      |-> "none",
     pinned   |-> FALSE,
     io       |-> {},
     results  |-> <<>>]

Task(pc, msg, dest, gen, duration) ==
    [pc       |-> pc,
     msg      |-> msg,
     dest     |-> dest,
     gen      |-> gen,
     duration |-> duration,
     pin      |-> duration >= PIN_ANNOUNCEMENT_THRESHOLD,
     timer    |-> 0,
     queue    |-> <<>>,
     counts   |-> EmptyCounts,
     dropped  |-> 0,
     ann      |-> "none",
     pinned   |-> FALSE,
     io       |-> {},
     results  |-> <<>>]

TaskIds == DOMAIN tasks

ChannelOf(t) == tasks[t].msg.channel_id

\* The tasks that have registered a sink (passed lib.rs:195).
RegisteredPcs ==
    {"collect", "remove", "delete", "unpin", "results", "closed", "failed",
     "unreachable"}

Registrations(c) ==
    Cardinality({t \in TaskIds : ChannelOf(t) = c /\ tasks[t].pc \in RegisteredPcs})

\* The receiver of session s lives from mpsc::channel(8) to the end of the
\* block at lib.rs:207 (or the unwinding of the panic).
RxAlive(s) == tasks[s].pc \in {"collect", "remove"}

\* The sender of session s lives in the map and nowhere else.
TxAlive(s) == contests[ChannelOf(s)] = s

\* A plausible slip: the handler clones the sender and lets the guard go
\* before it sends, so that no guard is ever held across the send.
GuardReleasedEarly(c) == FALSE

\* The guards of `contests.get` on channel c that are still held: a task
\* holds its guard across the send (lib.rs:42-50).
GuardHeld(c) == \E h \in TaskIds : tasks[h].pc = "send" /\ ChannelOf(h) = c

\* A plausible slip: the trigger text is looked at before the registry.
FirstStepTriggerFirst(channel_id, content) ==
    IF HasTrigger(content) THEN "announce"
    ELSE IF contests[channel_id] # NoEntry THEN "send"
    ELSE "done"

\* A plausible slip: a contest starts whatever the text.
FirstStepNoTriggerCheck(channel_id, content) ==
    IF contests[channel_id] # NoEntry THEN "send" ELSE "announce"

\* lib.rs:42, 53: where Handler::message goes for a message.
FirstStep(channel_id, content) ==
    IF contests[channel_id] # NoEntry THEN "send"
    ELSE IF HasTrigger(content) THEN "announce"
    ELSE "done"

\* lib.rs:41-76: the gateway delivers a message and its handler runs up to
\* its first suspension point: the lookup, the trigger test and the
\* resolution of the duration.
Message(channel_id, author, content, budget) ==
    /\ Len(tasks) < budget
    /\ LET msg  == [channel_id |-> channel_id, author |-> author,
                    content |-> content]
           step == FirstStep(channel_id, content)
       IN  tasks' = Append(tasks,
                Task(step, msg,
                     IF step = "send" THEN contests[channel_id] ELSE NoEntry,
                     Registrations(channel_id),
                     IF step = "announce" THEN ResolveDuration(content)
                                          ELSE 0))
    /\ UNCHANGED contests

\* lib.rs:49: contest.value().send(msg).await.unwrap().  The send completes
\* when the sink has room, fails when the receiver is gone, and stays
\* suspended, the guard held, while the sink is full.
Send(t) ==
    /\ t \in TaskIds
    /\ tasks[t].pc = "send"
    /\ LET s == tasks[t].dest
       IN  IF RxAlive(s)
           THEN /\ Len(tasks[s].queue) < SinkCapacity
                /\ tasks' = [tasks EXCEPT ![t].pc = "done",
                                          ![s].queue = Append(@, tasks[t].msg)]
           ELSE tasks' = [tasks EXCEPT ![t].pc = "unwrap"]
    /\ UNCHANGED contests

\* A plausible slip: the error of the announcement send is dropped (.ok()
\* in place of ?) and the session goes on.
AnnounceErrorIgnored(t) ==
    /\ t \in TaskIds
    /\ tasks[t].pc = "announce"
    /\ \E ok \in BOOLEAN :
          tasks' = [tasks EXCEPT
                       ![t].io  = @ \cup {"announce"},
                       ![t].ann = IF ok THEN "posted" ELSE @,
                       ![t].pc  = IF tasks[t].pin THEN "pin" ELSE "insert"]
    /\ UNCHANGED contests

\* lib.rs:173-185: the announcement is posted, or the send fails and
\* run_contest returns the error.
Announce(t) ==
    /\ t \in TaskIds
    /\ tasks[t].pc = "announce"
    /\ \E ok \in BOOLEAN :
          tasks' = [tasks EXCEPT
                       ![t].io  = @ \cup {"announce"},
                       ![t].ann = IF ok THEN "posted" ELSE @,
                       ![t].pc  = IF ~ok THEN "aborted"
                                  ELSE IF tasks[t].pin THEN "pin" ELSE "insert"]
    /\ UNCHANGED contests

\* lib.rs:187-189: announcement.pin(..).await.ok()
Pin(t) ==
    /\ t \in TaskIds
    /\ tasks[t].pc = "pin"
    /\ \E ok \in BOOLEAN :
          tasks' = [tasks EXCEPT ![t].io = @ \cup {"pin"},
                                 ![t].pinned = ok,
                                 ![t].pc = "insert"]
    /\ UNCHANGED contests

\* A plausible slip: the session counts the message that triggered it.
InsertCountingTrigger(t) ==
    /\ t \in TaskIds
    /\ tasks[t].pc = "insert"
    /\ ~GuardHeld(ChannelOf(t))
    /\ contests' = [contests EXCEPT ![ChannelOf(t)] = t]
    /\ tasks' = [tasks EXCEPT ![t].pc = "collect",
                              ![t].timer = tasks[t].duration,
                              ![t].counts = Count(@, tasks[t].msg)]

\* lib.rs:194-198: a fresh sink, and contests.insert, which takes the write
\* lock and replaces whatever sender the channel had; the select then arms
\* sleep(duration).
Insert(t) ==
    /\ t \in TaskIds
    /\ tasks[t].pc = "insert"
    /\ ~GuardHeld(ChannelOf(t))
    /\ contests' = [contests EXCEPT ![ChannelOf(t)] = t]
    /\ tasks' = [tasks EXCEPT ![t].pc = "collect",
                              ![t].timer = tasks[t].duration]

\* lib.rs:200-202: a message is received and counted.
Recv(t) ==
    /\ t \in TaskIds
    /\ tasks[t].pc = "collect"
    /\ tasks[t].queue # <<>>
    /\ tasks' = [tasks EXCEPT ![t].counts = Count(@, Head(tasks[t].queue)),
                              ![t].queue = Tail(@)]
    /\ UNCHANGED contests

\* lib.rs:200, 203: recv returns None once the sink is empty and its sender
\* has been dropped; the session panics.
ReceiverClosed(t) ==
    /\ t \in TaskIds
    /\ tasks[t].pc = "collect"
    /\ tasks[t].queue = <<>>
    /\ ~TxAlive(t)
    /\ tasks' = [tasks EXCEPT ![t].pc = "unreachable"]
    /\ UNCHANGED contests

\* lib.rs:198: the sleep completes and select! drops the receive loop.
TimerExpires(t) ==
    /\ t \in TaskIds
    /\ tasks[t].pc = "collect"
    /\ tasks' = [tasks EXCEPT ![t].pc = "remove"]
    /\ UNCHANGED contests

\* A plausible slip: the empty tally is not told apart and results are sent.
AfterBlockAlwaysResults(counts, pin) ==
    IF pin /\ DOMAIN counts # {} THEN "unpin" ELSE "results"

\* Where the session goes after the block: lib.rs:209-213.
AfterBlock(counts, pin) ==
    IF DOMAIN counts = {} THEN "delete"
    ELSE IF pin THEN "unpin" ELSE "results"

\* A plausible slip: the entry is not removed before the final calls.
RemoveForgotten(t) ==
    /\ t \in TaskIds
    /\ tasks[t].pc = "remove"
    /\ ~GuardHeld(ChannelOf(t))
    /\ tasks' = [tasks EXCEPT
                    ![t].dropped = Len(tasks[t].queue),
                    ![t].queue = <<>>,
                    ![t].pc = AfterBlock(tasks[t].counts, tasks[t].pin)]
    /\ UNCHANGED contests

\* lib.rs:206-207: contests.remove, which takes the write lock and removes
\* the channel's entry; then the block ends and the receiver is dropped with
\* whatever the sink still holds.
Remove(t) ==
    /\ t \in TaskIds
    /\ tasks[t].pc = "remove"
    /\ ~GuardHeld(ChannelOf(t))
    /\ contests' = [contests EXCEPT ![ChannelOf(t)] = NoEntry]
    /\ tasks' = [tasks EXCEPT
                    ![t].dropped = Len(tasks[t].queue),
                    ![t].queue = <<>>,
                    ![t].pc = AfterBlock(tasks[t].counts, tasks[t].pin)]

\* lib.rs:210: announcement.delete(..).await?
Delete(t) ==
    /\ t \in TaskIds
    /\ tasks[t].pc = "delete"
    /\ \E ok \in BOOLEAN :
          tasks' = [tasks EXCEPT ![t].io = @ \cup {"delete"},
                                 ![t].ann = IF ok THEN "deleted" ELSE @,
                                 ![t].pc = IF ok THEN "closed" ELSE "failed"]
    /\ UNCHANGED contests

\* lib.rs:212-214: announcement.unpin(..).await.ok()
Unpin(t) ==
    /\ t \in TaskIds
    /\ tasks[t].pc = "unpin"
    /\ \E ok \in BOOLEAN :
          tasks' = [tasks EXCEPT ![t].io = @ \cup {"unpin"},
                                 ![t].pinned = IF ok THEN FALSE ELSE @,
                                 ![t].pc = "results"]
    /\ UNCHANGED contests

\* lib.rs:224-233: the two fields of the results message.
Rankings(counts, by_messages, by_characters) ==
    [messages   |-> RankingBy(counts, by_messages, MessageKeys(counts),
                              MessagesShown(counts)),
     characters |-> RankingBy(counts, by_characters, CharacterKeys(counts),
                              CharactersShown(counts))]

\* lib.rs:216-236: the results message is rendered and sent.
SendResults(t) ==
    /\ t \in TaskIds
    /\ tasks[t].pc = "results"
    /\ \E ok \in BOOLEAN :
       \E by_messages \in SortedOrders(tasks[t].counts,
                                        MessageKeys(tasks[t].counts)) :
       \E by_characters \in SortedOrders(tasks[t].counts,
                                          CharacterKeys(tasks[t].counts)) :
          tasks' = [tasks EXCEPT
                       ![t].io = @ \cup {"results"},
                       ![t].results = Rankings(tasks[t].counts, by_messages,
                                               by_characters),
                       ![t].pc = IF ok THEN "closed" ELSE "failed"]
    /\ UNCHANGED contests

-----------------------------------------------------------------------------
(* The bot: any messages, any interleaving *)

SpamText == <<"S", "p", "a", "m">>

PlainText == <<"h", "i">>

Texts == {SpamText, PlainText}

\* The ids a next message may carry: the ids seen so far and the first
\* unseen one.
NextIds(ids, seen) ==
    {ids[i] : i \in {j \in 1..Len(ids) : \A k \in 1..(j - 1) : ids[k] \in seen}}

SeenChannels == {tasks[t].msg.channel_id : t \in TaskIds}

SeenAuthors == {tasks[t].msg.author : t \in TaskIds}

\* Handler::new(): an empty map; no message has been delivered.
Init ==
    /\ contests = [c \in Channels |-> NoEntry]
    /\ tasks = <<>>

Next ==
    \/ \E c \in NextIds(ChannelIds, SeenChannels),
          a \in NextIds(UserIds, SeenAuthors), x \in Texts :
             Message(c, a, x, MaxMsgs)
    \/ \E t \in 1..MaxMsgs : Send(t)
    \/ \E t \in 1..MaxMsgs : Announce(t)
    \/ \E t \in 1..MaxMsgs : Insert(t)
    \/ \E t \in 1..MaxMsgs : Recv(t)
    \/ \E t \in 1..MaxMsgs : ReceiverClosed(t)
    \/ \E t \in 1..MaxMsgs : TimerExpires(t)
    \/ \E t \in 1..MaxMsgs : Remove(t)
    \/ \E t \in 1..MaxMsgs : Delete(t)
    \/ \E t \in 1..MaxMsgs : SendResults(t)

Spec == Init /\ [][Next]_vars

-----------------------------------------------------------------------------
(* One contest with any requested duration *)

TokenPool ==
    { <<"s", "p", "a", "m">>,
      <<"9">>,
      <<"1", "0">>,
      <<"2", "9", "9">>,
      <<"0", "3", "0", "0">>,
      <<"3", "6", "0", "0">>,
      <<"3", "6", "0", "1">>,
      <<"+", "4", "5">>,
      <<"-", "2", "0">>,
      <<"1", "5", "s">> }

RECURSIVE JoinTokens(_)
JoinTokens(toks) ==
    IF Len(toks) = 1 THEN toks[1]
    ELSE toks[1] \o <<" ">> \o JoinTokens(Tail(toks))

DurationTexts ==
    {JoinTokens(toks) : toks \in UNION {[1..n -> TokenPool] : n \in 1..MaxTokens}}

\* The first message is any text of DurationTexts; a plain message follows.
DurationNext ==
    \/ /\ tasks = <<>>
       /\ \E x \in DurationTexts : Message(ChannelIds[1], UserIds[1], x, 2)
    \/ /\ tasks # <<>>
       /\ Message(ChannelIds[1], UserIds[2], PlainText, 2)
    \/ \E t \in 1..2 : Send(t)
    \/ \E t \in 1..2 : Announce(t)
    \/ \E t \in 1..2 : Pin(t)
    \/ \E t \in 1..2 : Insert(t)
    \/ \E t \in 1..2 : Recv(t)
    \/ \E t \in 1..2 : TimerExpires(t)
    \/ \E t \in 1..2 : Remove(t)
    \/ \E t \in 1..2 : Delete(t)
    \/ \E t \in 1..2 : Unpin(t)
    \/ \E t \in 1..2 : SendResults(t)

DurationSpec == Init /\ [][DurationNext]_vars

-----------------------------------------------------------------------------
(* The rendering of any tally *)

RankUsers == {"u1", "u2", "u3"}

SpamCounts == [messages : 1..MaxTally, characters : 0..MaxTally]

Tallies == UNION {[us -> SpamCounts] : us \in (SUBSET RankUsers) \ {{}}}

\* A session that has left the block with a tally of at least one
\* participant and is about to send its results.
RankInit ==
    /\ contests = [c \in Channels |-> NoEntry]
    /\ \E counts \in Tallies :
          tasks = << [Task("results",
                           [channel_id |-> ChannelIds[1],
                            author |-> UserIds[1], content |-> SpamText],
                           NoEntry, 0, DEFAULT_CONTEST_DURATION)
                      EXCEPT !.counts = counts,
                             !.timer = DEFAULT_CONTEST_DURATION,
                             !.ann = "posted",
                             !.io = {"announce"}] >>

RankNext == SendResults(1)

RankSpec == RankInit /\ [][RankNext]_vars

-----------------------------------------------------------------------------
(* One contest under a burst of messages, fairly scheduled *)

\* Enough messages to fill the sink and suspend one more sender.
FairMsgs == SinkCapacity + 2

\* A trigger, then plain messages.
FairNext ==
    \/ Message(ChannelIds[1], UserIds[1],
               IF tasks = <<>> THEN SpamText ELSE PlainText, FairMsgs)
    \/ \E t \in 1..FairMsgs : Send(t)
    \/ \E t \in 1..FairMsgs : Announce(t)
    \/ \E t \in 1..FairMsgs : Insert(t)
    \/ \E t \in 1..FairMsgs : Recv(t)
    \/ \E t \in 1..FairMsgs : TimerExpires(t)
    \/ \E t \in 1..FairMsgs : Remove(t)
    \/ \E t \in 1..FairMsgs : Delete(t)
    \/ \E t \in 1..FairMsgs : SendResults(t)

\* The runtime polls every task that can go on, and every timer fires.
Fairness ==
    \A t \in 1..FairMsgs :
        /\ WF_vars(Send(t))
        /\ WF_vars(Announce(t))
        /\ WF_vars(Insert(t))
        /\ WF_vars(Recv(t))
        /\ WF_vars(TimerExpires(t))
        /\ WF_vars(Remove(t))
        /\ WF_vars(Delete(t))
        /\ WF_vars(SendResults(t))

FairSpec == Init /\ [][FairNext]_vars /\ Fairness

-----------------------------------------------------------------------------
(* Properties *)

\* The tasks that ran run_contest.
IsSession(t) == tasks[t].pc \notin {"send", "done", "unwrap"}

\* The sessions of channel c in their collecting phase: the sink is
\* registered and the block at lib.rs:193-207 has not been left.
Collecting(c) ==
    {t \in TaskIds : ChannelOf(t) = c /\ tasks[t].pc \in {"collect", "remove"}}

\* C1: in every reachable state, every channel has at most one session in
\* its collecting phase.
C1_OneCollectingSessionPerChannel ==
    \A c \in Channels : Cardinality(Collecting(c)) <= 1

\* Two handlers raced for the same idle channel: both found no entry, and
\* neither had registered a sink when the other looked.
RacedForIdleChannel(t1, t2) ==
    /\ t1 # t2
    /\ ChannelOf(t1) = ChannelOf(t2)
    /\ tasks[t1].gen = tasks[t2].gen
    /\ IsSession(t1)
    /\ IsSession(t2)

\* C2: of two trigger messages whose handlers raced for the same idle
\* channel, only one posts an announcement and only one registers a session.
C2_OneAnnouncementPerRace ==
    \A t1, t2 \in TaskIds :
        RacedForIdleChannel(t1, t2) =>
            /\ ~(tasks[t1].ann # "none" /\ tasks[t2].ann # "none")
            /\ ~(tasks[t1].pc \in RegisteredPcs /\ tasks[t2].pc \in RegisteredPcs)

\* C3: a session that has left its block and reads its tally has dropped no
\* message with its receiver: every message that was put into the sink
\* before the sink was closed has been counted.
C3_BufferedMessagesCounted ==
    \A t \in TaskIds :
        tasks[t].pc \in {"delete", "unpin", "results", "closed", "failed"} =>
            tasks[t].dropped = 0

\* C4: under fair scheduling a session whose timer has expired removes its
\* entry and ends, and a handler that is delivering a message returns.
C4_FinishAndRoutingProgress ==
    \A t \in 1..FairMsgs :
        /\ (t \in TaskIds /\ tasks[t].pc = "remove")
              ~> (t \in TaskIds /\ tasks[t].pc \in {"closed", "failed"})
        /\ (t \in TaskIds /\ tasks[t].pc = "send")
              ~> (t \in TaskIds /\ tasks[t].pc = "done")

\* The tokens of a task's message and the values of those that parse.
TokensOf(t) == SplitAsciiWhitespace(tasks[t].msg.content)

IntegerTokens(t) == {i \in 1..Len(TokensOf(t)) : ParseU64(TokensOf(t)[i]).ok}

TokenValue(t, i) == ParseU64(TokensOf(t)[i]).val

InRangeTokens(t) ==
    {i \in IntegerTokens(t) : 10 <= TokenValue(t, i) /\ TokenValue(t, i) <= 3600}

Least(S) == CHOOSE i \in S : \A j \in S : i <= j

\* C5 as stated: the first token that parses as an integer is the only
\* candidate; in range it is the duration, out of range the duration is 60.
C5_FirstIntegerTokenOnly ==
    \A t \in TaskIds :
        IsSession(t) =>
            tasks[t].duration =
                IF IntegerTokens(t) # {}
                   /\ Least(IntegerTokens(t)) \in InRangeTokens(t)
                THEN TokenValue(t, Least(IntegerTokens(t)))
                ELSE 60

\* C5 amended: the duration is the value of the first token that parses as
\* an integer in [10, 3600], and 60 when there is none; integer tokens out
\* of the range are skipped.
C5_FirstInRangeToken ==
    \A t \in TaskIds :
        IsSession(t) =>
            tasks[t].duration =
                IF InRangeTokens(t) # {}
                THEN TokenValue(t, Least(InRangeTokens(t)))
                ELSE 60

\* A session collects for the value of an in-range token that follows an
\* out-of-range integer token.
C5_Witness ==
    \E t \in TaskIds :
        /\ tasks[t].pc = "collect"
        /\ InRangeTokens(t) # {}
        /\ Least(IntegerTokens(t)) < Least(InRangeTokens(t))
        /\ tasks[t].timer = TokenValue(t, Least(InRangeTokens(t)))

\* C6: the resolved duration is within [10, 3600], it is the value of an
\* integer token of the message or the default 60 (never a bound an
\* out-of-range request was clamped to), and the timer is armed with it.
C6_DurationInRangeNeverClamped ==
    \A t \in TaskIds :
        IsSession(t) =>
            /\ 10 <= tasks[t].duration
            /\ tasks[t].duration <= 3600
            /\ \/ tasks[t].duration = 60
               \/ \E i \in IntegerTokens(t) : TokenValue(t, i) = tasks[t].duration
            /\ tasks[t].pc \in RegisteredPcs => tasks[t].timer = tasks[t].duration

\* A session whose message asked only for out-of-range durations sleeps 60
\* seconds.
C6_Witness ==
    \E t \in TaskIds :
        /\ tasks[t].pc = "collect"
        /\ IntegerTokens(t) # {}
        /\ InRangeTokens(t) = {}
        /\ \E i \in IntegerTokens(t) : TokenValue(t, i) > 3600
        /\ tasks[t].timer = 60

\* C7: a message that arrives while its channel has a registry entry is
\* handed to that entry's sink, and its handling ends with the message in
\* that sink: it starts no session and posts nothing.
C7_RoutedMessageEndsThere ==
    [][ /\ Len(tasks') = Len(tasks) + 1 =>
            LET t == Len(tasks')
                c == tasks'[t].msg.channel_id
            IN  contests[c] # NoEntry =>
                    /\ tasks'[t].pc = "send"
                    /\ tasks'[t].dest = contests[c]
        /\ \A t \in TaskIds :
              (tasks[t].pc = "send" /\ tasks'[t] # tasks[t]) =>
                  /\ tasks'[t] = [tasks[t] EXCEPT !.pc = "done"]
                  /\ tasks'[tasks[t].dest].queue =
                         Append(tasks[tasks[t].dest].queue, tasks[t].msg)
                  /\ contests' = contests
      ]_vars

\* A message holding the trigger was routed into the sink of a running
\* contest and its handler returned.
C7_Witness ==
    \E t \in TaskIds :
        /\ tasks[t].dest # NoEntry
        /\ tasks[t].pc = "done"
        /\ tasks[t].msg.content = SpamText

\* No "spam", in any letter case, anywhere in the text.
TriggerFree(x) ==
    \A i \in 1..(Len(x) - 3) :
        ~ /\ x[i] \in {"s", "S"}
          /\ x[i + 1] \in {"p", "P"}
          /\ x[i + 2] \in {"a", "A"}
          /\ x[i + 3] \in {"m", "M"}

\* C8: a channel that has only received messages without the trigger has
\* no registry entry, no session and no announcement.
C8_NoTriggerNoContest ==
    \A c \in Channels :
        (\A t \in TaskIds : ChannelOf(t) = c => TriggerFree(tasks[t].msg.content))
            => /\ contests[c] = NoEntry
               /\ \A t \in TaskIds :
                     ChannelOf(t) = c =>
                         /\ tasks[t].pc = "done"
                         /\ tasks[t].ann = "none"
                         /\ tasks[t].io = {}

\* Two messages without the trigger were handled in a channel that is idle.
C8_Witness ==
    \E c \in Channels :
        /\ Cardinality({t \in TaskIds : ChannelOf(t) = c}) >= 2
        /\ \A t \in TaskIds :
              ChannelOf(t) = c =>
                  TriggerFree(tasks[t].msg.content) /\ tasks[t].pc = "done"

\* An author's tally on a metric.
Metric(counts, metric, user) ==
    IF metric = "messages" THEN counts[user].messages
    ELSE counts[user].characters

\* Competition ranking of the lines R by a metric of the tally.
CompetitionRanked(R, counts, metric) ==
    /\ R # <<>> => R[1].rank = 1
    /\ \A i, j \in 1..Len(R) :
          Metric(counts, metric, R[i].user) = Metric(counts, metric, R[j].user)
              => R[i].rank = R[j].rank
    /\ \A i \in 1..(Len(R) - 1) :
          Metric(counts, metric, R[i].user) # Metric(counts, metric, R[i + 1].user) =>
              R[i + 1].rank =
                  R[i].rank + Cardinality({j \in 1..Len(R) : R[j].rank = R[i].rank})

\* C9: both rankings of a results message are competition rankings: equal
\* keys share a rank, the first tier has rank 1, and a tier's rank is the
\* previous tier's rank plus the previous tier's size.
C9_CompetitionRanking ==
    \A t \in TaskIds :
        tasks[t].results # <<>> =>
            /\ CompetitionRanked(tasks[t].results.messages, tasks[t].counts,
                                 "messages")
            /\ CompetitionRanked(tasks[t].results.characters, tasks[t].counts,
                                 "characters")

\* Two authors tie at rank 1 by messages and the third has rank 3, while by
\* characters the three have ranks 1, 2, 3.
C9_Witness ==
    \E t \in TaskIds :
        /\ tasks[t].results # <<>>
        /\ Len(tasks[t].results.messages) = 3
        /\ tasks[t].results.messages[1].rank = 1
        /\ tasks[t].results.messages[2].rank = 1
        /\ tasks[t].results.messages[3].rank = 3
        /\ [i \in 1..3 |-> tasks[t].results.characters[i].rank] = <<1, 2, 3>>

\* The lines R list every author of the tally once, show the author's
\* count of the metric, and descend.
ListsEveryAuthor(R, counts, metric) ==
    /\ Len(R) = Cardinality(DOMAIN counts)
    /\ {R[i].user : i \in 1..Len(R)} = DOMAIN counts
    /\ \A i \in 1..Len(R) : R[i].shown = Metric(counts, metric, R[i].user)
    /\ \A i, j \in 1..Len(R) : i < j => R[i].shown >= R[j].shown

\* C10: each of the two renderings has one line per author, shows the
\* author's count of its metric, and is in non-increasing order of it.
C10_OneLinePerAuthorDescending ==
    \A t \in TaskIds :
        tasks[t].results # <<>> =>
            /\ ListsEveryAuthor(tasks[t].results.messages, tasks[t].counts,
                                "messages")
            /\ ListsEveryAuthor(tasks[t].results.characters, tasks[t].counts,
                                "characters")

\* A results message for three authors whose two rankings order them
\* differently.
C10_Witness ==
    \E t \in TaskIds :
        /\ tasks[t].results # <<>>
        /\ Len(tasks[t].results.messages) = 3
        /\ tasks[t].results.messages[1].shown > tasks[t].results.messages[3].shown
        /\ tasks[t].results.messages[1].user # tasks[t].results.characters[1].user

\* The handlers that have put their message into the sink of session t, and
\* the places of the sink that hold a message of author u.
Routed(t) == {h \in TaskIds : tasks[h].dest = t /\ tasks[h].pc = "done"}

RoutedBy(t, u) == {h \in Routed(t) : tasks[h].msg.author = u}

QueuedBy(t, u) ==
    {i \in 1..Len(tasks[t].queue) : tasks[t].queue[i].author = u}

RECURSIVE SumOf(_, _)
SumOf(S, f) ==
    IF S = {} THEN 0
    ELSE LET x == CHOOSE y \in S : TRUE IN f[x] + SumOf(S \ {x}, f)

\* The messages of author u that session t has counted: those routed to it
\* that its sink no longer holds.
CountedMessages(t, u) ==
    Cardinality(RoutedBy(t, u)) - Cardinality(QueuedBy(t, u))

CountedCharacters(t, u) ==
    SumOf(RoutedBy(t, u), [h \in RoutedBy(t, u) |-> Len(tasks[h].msg.content)])
    - SumOf(QueuedBy(t, u),
            [i \in QueuedBy(t, u) |-> Len(tasks[t].queue[i].content)])

\* C11: while a session collects, each author's entry holds the number and
\* the summed lengths of that author's counted messages, and authors with
\* no counted message have no entry; a step that changes the tally counts
\* the head of the sink: it creates the author's entry as {1, length} or
\* adds 1 and the length to it, and leaves every other entry as it was.
C11_TallyAccumulates ==
    /\ [](\A t \in TaskIds :
            tasks[t].pc \in {"collect", "remove"} =>
                \A u \in Authors :
                    IF u \in DOMAIN tasks[t].counts
                    THEN /\ tasks[t].counts[u].messages = CountedMessages(t, u)
                         /\ tasks[t].counts[u].characters = CountedCharacters(t, u)
                         /\ tasks[t].counts[u].messages >= 1
                    ELSE CountedMessages(t, u) = 0)
    /\ [][\A t \in TaskIds :
            tasks'[t].counts # tasks[t].counts =>
                LET old == tasks[t].counts
                    new == tasks'[t].counts
                    m   == Head(tasks[t].queue)
                IN  /\ DOMAIN new = DOMAIN old \cup {m.author}
                    /\ \A u \in DOMAIN old \ {m.author} : new[u] = old[u]
                    /\ new[m.author] =
                          IF m.author \in DOMAIN old
                          THEN [messages   |-> old[m.author].messages + 1,
                                characters |-> old[m.author].characters
                                               + Len(m.content)]
                          ELSE [messages |-> 1, characters |-> Len(m.content)]
      ]_vars

\* A session has counted two messages of one author.
C11_Witness ==
    \E t \in TaskIds : \E u \in DOMAIN tasks[t].counts :
        /\ tasks[t].counts[u].messages = 2
        /\ tasks[t].counts[u].characters >= 4

\* C12: a contest's pin flag is set exactly when its resolved duration is at
\* least 300 seconds; the announcement is pinned only for a flagged contest,
\* and every flagged contest that gets past the announcement issues the pin;
\* the unpin is issued only for a flagged contest that ended with at least
\* one participant, and every such contest issues it before its results.
C12_PinOnlyLongContests ==
    \A t \in TaskIds :
        IsSession(t) =>
            /\ tasks[t].pin <=> tasks[t].duration >= 300
            /\ "pin" \in tasks[t].io => tasks[t].pin
            /\ tasks[t].pinned => "pin" \in tasks[t].io
            /\ (tasks[t].pin /\ tasks[t].pc \notin {"announce", "aborted", "pin"})
                  => "pin" \in tasks[t].io
            /\ "unpin" \in tasks[t].io =>
                  /\ tasks[t].pin
                  /\ tasks[t].pc \in {"results", "closed", "failed"}
                  /\ DOMAIN tasks[t].counts # {}
            /\ (tasks[t].pin /\ "results" \in tasks[t].io)
                  => "unpin" \in tasks[t].io

\* A contest of exactly 300 seconds was pinned, and unpinned when it ended
\* with a participant.
C12_Witness ==
    \E t \in TaskIds :
        /\ tasks[t].duration = 300
        /\ {"pin", "unpin"} \subseteq tasks[t].io
        /\ tasks[t].pc = "closed"
        /\ ~tasks[t].pinned

\* The session has left the block at lib.rs:193-207 after its timer expired.
TimerEnded(t) == tasks[t].pc \in {"delete", "unpin", "results", "closed", "failed"}

\* C13: a session that closes after its timer expired has done exactly one
\* of two things.  With an empty tally it has deleted the announcement and
\* sent no results; with a participant it has sent the results message, both
\* rankings listing every participant, and has left the announcement in
\* place.  A session whose last call failed has still issued exactly the
\* call of its branch.
C13_DeleteOrResults ==
    \A t \in TaskIds :
        LET empty == DOMAIN tasks[t].counts = {}
            n     == Cardinality(DOMAIN tasks[t].counts)
        IN  /\ tasks[t].pc = "closed" =>
                 IF empty
                 THEN /\ tasks[t].ann = "deleted"
                      /\ "delete" \in tasks[t].io
                      /\ "results" \notin tasks[t].io
                      /\ tasks[t].results = <<>>
                 ELSE /\ tasks[t].ann = "posted"
                      /\ "delete" \notin tasks[t].io
                      /\ "results" \in tasks[t].io
                      /\ tasks[t].results # <<>>
                      /\ Len(tasks[t].results.messages) = n
                      /\ Len(tasks[t].results.characters) = n
            /\ tasks[t].pc = "failed" =>
                 /\ tasks[t].ann = "posted"
                 /\ IF empty
                    THEN "delete" \in tasks[t].io /\ "results" \notin tasks[t].io
                    ELSE "results" \in tasks[t].io /\ "delete" \notin tasks[t].io
            /\ (TimerEnded(t) /\ tasks[t].pc \notin {"closed", "failed"}) =>
                 /\ tasks[t].ann = "posted"
                 /\ {"delete", "results"} \cap tasks[t].io = {}
                 /\ tasks[t].pc = "delete" <=> empty

\* Two sessions have closed, one by deleting its announcement and one by
\* sending results.
C13_Witness ==
    \E t1, t2 \in TaskIds :
        /\ tasks[t1].pc = "closed" /\ tasks[t1].ann = "deleted"
        /\ tasks[t2].pc = "closed" /\ tasks[t2].results # <<>>

\* C14: a session whose announcement send failed is over.  The step that
\* issues the send without posting an announcement aborts the session; an
\* aborted session has issued nothing but that send, has registered no
\* entry, has armed no timer and received nothing, and never moves again.
C14_FailedAnnouncementAborts ==
    /\ [](\A t \in TaskIds :
            tasks[t].pc = "aborted" =>
                /\ tasks[t].io = {"announce"}
                /\ tasks[t].ann = "none"
                /\ ~tasks[t].pinned
                /\ tasks[t].timer = 0
                /\ tasks[t].queue = <<>> /\ tasks[t].counts = EmptyCounts
                /\ tasks[t].results = <<>>
                /\ contests[ChannelOf(t)] # t
                /\ Routed(t) = {})
    /\ [][\A t \in TaskIds :
            /\ (tasks[t].pc = "announce" /\ tasks'[t].pc # "announce"
                    /\ tasks'[t].ann = "none")
                  => tasks'[t].pc = "aborted" /\ contests' = contests
            /\ tasks[t].pc = "aborted" => tasks'[t] = tasks[t]
      ]_vars

\* After a failed announcement on an idle channel, a later trigger has
\* started a contest there.
C14_Witness ==
    \E t, later \in TaskIds :
        /\ tasks[t].pc = "aborted"
        /\ tasks[t].gen = 0
        /\ later > t
        /\ ChannelOf(later) = ChannelOf(t)
        /\ tasks[later].gen = 0
        /\ tasks[later].pc = "collect"
        /\ contests[ChannelOf(t)] = later

\* C15: whatever gateway call fails, a session that has left the block, and
\* so every session that has returned Ok or Err, has no registry entry: the
\* entry is removed before the delete, the unpin and the results send, and a
\* session aborted at the announcement never had one.
C15_NoEntryLeftBehind ==
    \A t \in TaskIds :
        (TimerEnded(t) \/ tasks[t].pc = "aborted") =>
            /\ contests[ChannelOf(t)] # t
            /\ ~RxAlive(t)

\* A pinned contest with a participant returned Err: its pin succeeded, its
\* unpin and its results send failed, and the channel has no entry.
C15_Witness ==
    \E t \in TaskIds :
        /\ tasks[t].pc = "failed"
        /\ {"pin", "unpin", "results"} \subseteq tasks[t].io
        /\ tasks[t].pinned
        /\ contests[ChannelOf(t)] = NoEntry

\* C16: the step that ends a session's block removes the channel's entry
\* and leaves the tally as it is; from then on the tally never changes, so
\* the tally tested for emptiness is the tally rendered; and a session folds
\* a message into its tally only while its registry entry is in place.
C16_NoCountAfterRemoval ==
    [][\A t \in TaskIds :
          /\ (tasks[t].pc = "remove" /\ tasks'[t].pc # "remove") =>
                /\ contests'[ChannelOf(t)] = NoEntry
                /\ tasks'[t].counts = tasks[t].counts
          /\ TimerEnded(t) => tasks'[t].counts = tasks[t].counts
          /\ tasks'[t].counts # tasks[t].counts => contests[ChannelOf(t)] = t
      ]_vars

\* The part of C16 that concerns the session's own steps: entry removed at
\* the end of the block, tally untouched from then on.
OwnRemovalPrecedesRead ==
    [][\A t \in TaskIds :
          /\ (tasks[t].pc = "remove" /\ tasks'[t].pc # "remove") =>
                /\ contests'[ChannelOf(t)] = NoEntry
                /\ tasks'[t].counts = tasks[t].counts
          /\ TimerEnded(t) => tasks'[t].counts = tasks[t].counts
      ]_vars

\* C17: no session reaches the `unreachable!` of its receive loop, and a
\* registration on a channel that already has an entry changes nothing: an
\* entry in the map is never replaced by another.
C17_SinkNeverClosedWhileCollecting ==
    /\ [](\A t \in TaskIds : tasks[t].pc # "unreachable")
    /\ [][\A c \in Channels :
            (contests[c] # NoEntry /\ contests'[c] # NoEntry)
                => contests'[c] = contests[c]
      ]_vars

\* C19: a step that removes a channel's entry is taken by the session that
\* inserted that entry, at the end of its own block; so the entry of a
\* session whose timer is still running is never removed.
C19_RemovesOnlyOwnEntry ==
    [][\A c \in Channels :
          (contests[c] # NoEntry /\ contests'[c] = NoEntry) =>
              /\ tasks[contests[c]].pc = "remove"
              /\ tasks'[contests[c]].pc # "remove"
      ]_vars

\* C18: the unwrap at lib.rs:49 never fails.  While a handler is sending,
\* the session it sends to is the one registered for the channel and that
\* session's receiver is alive, in every interleaving with timer expiries
\* and racing session starts.
C18_SendNeverFails ==
    \A t \in TaskIds :
        /\ tasks[t].pc # "unwrap"
        /\ tasks[t].pc = "send" =>
              /\ tasks[t].dest # NoEntry
              /\ contests[ChannelOf(t)] = tasks[t].dest
              /\ RxAlive(tasks[t].dest)

\* A handler is in its send, on a channel where two sessions raced, at the
\* moment the timer of the session it sends to has expired.
C18_Witness ==
    \E h, s, other \in TaskIds :
        /\ tasks[h].pc = "send" /\ tasks[h].dest = s
        /\ tasks[s].pc = "remove"
        /\ other # s /\ ChannelOf(other) = ChannelOf(s)
        /\ tasks[other].pc \in RegisteredPcs

\* The number of messages in the tally of session t.
TotalCounted(t) ==
    SumOf(DOMAIN tasks[t].counts,
          [u \in DOMAIN tasks[t].counts |-> tasks[t].counts[u].messages])

\* C20: a session tallies only what came through its registered sink.  The
\* messages in its tally, in its sink and dropped with its sink are as many
\* as the handlers that found its entry and completed their send; those
\* handlers all arrived after the trigger, which is not among them; and an
\* author has an entry only if one of them carried that author's message.
C20_OnlyRoutedMessagesCounted ==
    \A t \in TaskIds :
        IsSession(t) =>
            /\ TotalCounted(t) + Len(tasks[t].queue) + tasks[t].dropped
                  = Cardinality(Routed(t))
            /\ \A h \in Routed(t) : h > t /\ ChannelOf(h) = ChannelOf(t)
            /\ \A u \in DOMAIN tasks[t].counts : RoutedBy(t, u) # {}
            /\ tasks[t].pc \in {"announce", "pin", "insert", "aborted"} =>
                  Routed(t) = {} /\ tasks[t].counts = EmptyCounts

\* A message that arrived after the trigger and before the registration
\* went nowhere, a later one was counted, and the author of the trigger and
\* of the early message has no entry in the tally.
C20_Witness ==
    \E t, early, h \in TaskIds :
        /\ IsSession(t) /\ tasks[t].pc = "closed"
        /\ early > t /\ ChannelOf(early) = ChannelOf(t)
        /\ tasks[early].pc = "done" /\ tasks[early].dest = NoEntry
        /\ tasks[early].msg.author = tasks[t].msg.author
        /\ h \in Routed(t)
        /\ DOMAIN tasks[t].counts = {tasks[h].msg.author}
        /\ tasks[t].msg.author \notin DOMAIN tasks[t].counts

=============================================================================
